---- MODULE Spec2Model ----
(***************************************************************************)
(* Model of the schema-compare result panel (class SchemaCompareResult in  *)
(* src/src/vs/workbench/common/contextkeys.ts): the two pure routines      *)
(* getAllDifferences and getAggregatedScript, and the event-driven panel   *)
(* (start, execute, reExecute, the three buttons, row selection).          *)
(*                                                                         *)
(* JavaScript values are tagged records so that null, undefined and the    *)
(* text "null" stay distinct: Str(s), Null, Undefined.  Script text and    *)
(* the diff panes are JavaScript strings and are modelled as TLA+ strings. *)
(***************************************************************************)
EXTENDS Integers, Sequences, FiniteSets, TLC

VARIABLES
    \* ---- the panel (SchemaCompareResult instance and its widgets) ----
    pc,                  \* "constructed" before start(), "started" after
    sourceEndpointInfo, targetEndpointInfo,
    sourceName, targetName,
    sourceDropdown, targetDropdown,     \* the dropdowns' values
    comparisonResult,    \* this.comparisonResult
    compareCalls,        \* schemaCompare calls in flight (set of call records)
    nextOperationId,     \* number of schemaCompare calls issued so far
    compareEnabled, switchEnabled, generateScriptEnabled,
    flexModel,           \* items of this.flexModel, in order
    splitView,           \* items of this.splitView, in order
    tableData,           \* differencesTable.data
    selectedRows,        \* differencesTable.selectedRows
    contentLeft, contentRight,          \* diffEditor panes
    rowSelectedHandlers, \* number of onRowSelected handlers registered
    contentProviders,    \* number of source/target provider pairs registered
    lastCall,            \* the provider call whose completion was handled last
    lastMessage,         \* the error message that handler showed, or NoMessage
    saveDialogs,         \* save-file dialogs open (generate-script flows waiting)
    generateCalls,       \* schemaCompareGenerateScript calls in flight
    generateClicks,      \* number of generate-script clicks so far
    cancelledFlows,      \* history: generate-script flows whose dialog was cancelled
    issuedCalls,         \* history: the schemaCompare calls issued, by operation id
    \* ---- harness for the pure routines ----
    fnDiffs, fnData,     \* input and output of getAllDifferences
    fnNode, fnSide, fnScript,           \* input and output of getAggregatedScript
    fnPhase              \* "input" before the routine is applied, then "flattened" or "aggregated"

panelVars == <<pc, sourceEndpointInfo, targetEndpointInfo, sourceName, targetName,
               sourceDropdown, targetDropdown, comparisonResult, compareCalls,
               nextOperationId, compareEnabled, switchEnabled, generateScriptEnabled,
               flexModel, splitView, tableData, selectedRows, contentLeft,
               contentRight, rowSelectedHandlers, contentProviders, lastCall,
               lastMessage, saveDialogs, generateCalls, generateClicks,
               cancelledFlows, issuedCalls>>

fnVars == <<fnDiffs, fnData, fnNode, fnSide, fnScript, fnPhase>>

vars == <<panelVars, fnVars>>

----------------------------------------------------------------------------
(* Bounds *)

MaxNodes == 4        \* nodes per difference tree given to getAggregatedScript
MaxDiffs == 3        \* top-level nodes per list given to getAllDifferences
MaxRuns == 3         \* schemaCompare calls per panel
MaxGenerateClicks == 2   \* generate-script clicks per panel

----------------------------------------------------------------------------
(* JavaScript values *)

Null == [tag |-> "null", v |-> ""]

Undefined == [tag |-> "undefined", v |-> ""]

Str(s) == [tag |-> "string", v |-> s]

IsNull(x) == x.tag = "null"

\* JavaScript's conversion of a value to text, as applied by `script += value`
JsString(x) ==
    CASE x.tag = "string" -> x.v
      [] x.tag = "null" -> "null"
      [] x.tag = "undefined" -> "undefined"

\* JavaScript truthiness of a string-or-null-or-undefined value
Truthy(x) == x.tag = "string" /\ x.v # ""

\* array[i] with JavaScript's 0-based index; undefined outside the array
At(arr, i) == IF i + 1 \in DOMAIN arr THEN arr[i + 1] ELSE Undefined

----------------------------------------------------------------------------
(* azdata.DiffEntry, azdata.SchemaDifferenceType, azdata.SchemaUpdateAction *)

SchemaDifferenceType == {"Object", "Property"}

SchemaUpdateAction == {"Delete", "Change", "Add"}

DiffEntry(type, name, sourceValue, targetValue, action, sourceScript, targetScript, children) ==
    [tag |-> "DiffEntry", differenceType |-> type, name |-> name,
     sourceValue |-> sourceValue, targetValue |-> targetValue,
     updateAction |-> action,
     sourceScript |-> sourceScript, targetScript |-> targetScript,
     children |-> children]

----------------------------------------------------------------------------
(* constructor: this.SchemaCompareActionMap *)

SchemaCompareActionMapNoAdd ==
    ("Delete" :> "Delete") @@ ("Change" :> "Change")

SchemaCompareActionMap ==
    ("Delete" :> "Delete") @@ ("Change" :> "Change") @@ ("Add" :> "Add")

\* this.SchemaCompareActionMap[action]: undefined for a key never assigned
ActionLabel(action) ==
    IF action \in DOMAIN SchemaCompareActionMap
    THEN Str(SchemaCompareActionMap[action])
    ELSE Undefined

----------------------------------------------------------------------------
(* getAllDifferences *)

\* the row pushed for one difference, or nothing
PushedRowsEmptyType(difference) ==
    IF difference.differenceType = "Object"
    THEN IF ~IsNull(difference.sourceValue) \/ ~IsNull(difference.targetValue)
         THEN << <<Undefined, difference.name,
                   ActionLabel(difference.updateAction), difference.targetValue>> >>
         ELSE <<>>
    ELSE <<>>

PushedRowsNoNullTest(difference) ==
    IF difference.differenceType = "Object"
    THEN << <<difference.name, difference.sourceValue,
              ActionLabel(difference.updateAction), difference.targetValue>> >>
    ELSE <<>>

PushedRows(difference) ==
    IF difference.differenceType = "Object"
    THEN IF ~IsNull(difference.sourceValue) \/ ~IsNull(difference.targetValue)
         THEN << <<difference.name, difference.sourceValue,
                   ActionLabel(difference.updateAction), difference.targetValue>> >>
         ELSE <<>>
    ELSE <<>>

\* differences.forEach(...) from element k on, with `data` accumulated so far
RECURSIVE ForEachDifference(_, _, _)
ForEachDifference(differences, k, data) ==
    IF k > Len(differences) THEN data
    ELSE ForEachDifference(differences, k + 1, data \o PushedRows(differences[k]))

getAllDifferences(differences) == ForEachDifference(differences, 1, <<>>)

----------------------------------------------------------------------------
(* getAggregatedScript *)

\* the node's own script for the requested side, as `script +=` appends it
OwnScriptSkipsNull(diffEntry, getSourceScript) ==
    IF IsNull(IF getSourceScript THEN diffEntry.sourceScript ELSE diffEntry.targetScript)
    THEN ""
    ELSE JsString(IF getSourceScript THEN diffEntry.sourceScript ELSE diffEntry.targetScript)

OwnScript(diffEntry, getSourceScript) ==
    JsString(IF getSourceScript THEN diffEntry.sourceScript ELSE diffEntry.targetScript)

\* what the forEach body appends for a child whose aggregate is childScript
AppendedKeepNull(childScript) == childScript

Appended(childScript) == IF childScript # "null" THEN childScript ELSE ""

\* the value of `script` when diffEntry is null
NullEntryScriptNewline == "\n"

NullEntryScript == ""

RECURSIVE getAggregatedScript(_, _)
RECURSIVE ForEachChild(_, _, _, _)
\* diffEntry.children.forEach(...) from child k on, with `script` so far
ForEachChild(children, k, getSourceScript, script) ==
    IF k > Len(children) THEN script
    ELSE ForEachChild(children, k + 1, getSourceScript,
                      script \o Appended(getAggregatedScript(children[k], getSourceScript)))

getAggregatedScript(diffEntry, getSourceScript) ==
    IF ~IsNull(diffEntry)
    THEN ForEachChild(diffEntry.children, 1, getSourceScript,
                      "" \o OwnScript(diffEntry, getSourceScript))
    ELSE NullEntryScript

----------------------------------------------------------------------------
(* Inputs of the pure routines *)

\* (sourceScript, targetScript) of a generated node: present text, an absent
\* (null) field, the text "null" and the empty text occur on each side
ScriptPairs ==
    { <<Str("A"), Str("X")>>, <<Null, Str("null")>>,
      <<Str("null"), Null>>, <<Str("B"), Str("")>> }

ScriptNode(pair, children) ==
    DiffEntry("Object", Str("N"), Str("s"), Str("t"), "Change", pair[1], pair[2], children)

RECURSIVE TreesOfSize(_)
RECURSIVE ForestsOfSize(_)
\* the ordered sequences of trees with n nodes in total
ForestsOfSize(n) ==
    IF n = 0 THEN { <<>> }
    ELSE UNION { { <<t>> \o f : t \in TreesOfSize(j), f \in ForestsOfSize(n - j) } : j \in 1..n }

\* the trees with exactly n nodes
TreesOfSize(n) ==
    { ScriptNode(pair, children) : pair \in ScriptPairs, children \in ForestsOfSize(n - 1) }

Trees == UNION { TreesOfSize(n) : n \in 1..MaxNodes }

\* a nested difference that would pass the row filter were it top-level
ChildRow ==
    DiffEntry("Object", Str("Child"), Str("c"), Str("d"), "Add", Null, Null, <<>>)

\* top-level nodes for getAllDifferences: every type, both values present or
\* absent, every update action; and parents of a nested difference
TopNodes ==
    { DiffEntry(type, Str("Table1"), sourceValue, targetValue, action,
                Str("CREATE TABLE T1;"), Null, <<>>) :
        type \in SchemaDifferenceType,
        sourceValue \in {Null, Str("CREATE TABLE T1")},
        targetValue \in {Null, Str("T2")},
        action \in SchemaUpdateAction }
    \cup
    { DiffEntry(type, Str("Parent"), sourceValue, Null, "Change",
                Str("P;"), Null, <<ChildRow>>) :
        type \in SchemaDifferenceType,
        sourceValue \in {Null, Str("P")} }

\* the difference lists with at most MaxDiffs top-level nodes
DiffListsUpTo == UNION { [1..n -> TopNodes] : n \in 0..MaxDiffs }

----------------------------------------------------------------------------
(* The panel: endpoints, provider results, widgets *)

EndpointDb1 == [endpointType |-> "database", databaseName |-> "db1"]

EndpointDb2 == [endpointType |-> "database", databaseName |-> "db2"]

EndpointDacpac == [endpointType |-> "dacpac", databaseName |-> ""]

\* the (source, target) pairs the panel is constructed with
EndpointPairs ==
    { <<EndpointDb1, EndpointDb2>>, <<EndpointDb1, EndpointDacpac>>,
      <<EndpointDacpac, EndpointDb2>> }

Table1 ==
    DiffEntry("Object", Str("Table1"), Str("CREATE TABLE T1"), Null, "Delete",
              Str("CREATE TABLE T1;"), Null, <<>>)

Prop1 ==
    DiffEntry("Property", Str("Prop1"), Str("p"), Str("q"), "Change",
              Str("P-src"), Str("P-tgt"), <<>>)

Empty1 ==
    DiffEntry("Object", Str("Empty1"), Null, Null, "Change",
              Str("E-src"), Str("E-tgt"), <<>>)

View1 ==
    DiffEntry("Object", Str("View1"), Str("v"), Str("w"), "Change",
              Str("A"), Str("X"),
              << DiffEntry("Property", Str("c1"), Null, Null, "Change", Null, Str("Y"), <<>>),
                 DiffEntry("Property", Str("c2"), Null, Null, "Add", Str("B"), Null, <<>>) >>)

\* the difference lists the provider may return
PanelDiffLists ==
    { <<>>, <<Table1>>, <<Prop1>>, <<Prop1, View1>>, <<View1, Empty1, Table1>> }

CompareResult(success, errorMessage, differences, operationId) ==
    [tag |-> "result", success |-> success, errorMessage |-> errorMessage,
     differences |-> differences, operationId |-> operationId]

\* what a schemaCompare call may come back with: a successful result, a
\* non-success result (with or without error text, with or without a
\* difference list), nothing (null), or a thrown fault
CompareOutcomes(operationId) ==
    { [kind |-> "result", value |-> CompareResult(TRUE, Undefined, [tag |-> "array", items |-> d], operationId)] :
        d \in PanelDiffLists }
    \cup
    { [kind |-> "result", value |-> CompareResult(FALSE, e, d, operationId)] :
        e \in {Undefined, Str("E1")},
        d \in {Null, [tag |-> "array", items |-> <<>>], [tag |-> "array", items |-> <<Table1>>]} }
    \cup
    { [kind |-> "result", value |-> Null], [kind |-> "throw", value |-> Null] }

GenerateResult(success, errorMessage) ==
    [tag |-> "result", success |-> success, errorMessage |-> errorMessage]

GenerateOutcomes ==
    { [kind |-> "result", value |-> GenerateResult(TRUE, Undefined)],
      [kind |-> "result", value |-> GenerateResult(FALSE, Undefined)],
      [kind |-> "result", value |-> GenerateResult(FALSE, Str("E2"))],
      [kind |-> "result", value |-> Null],
      [kind |-> "throw", value |-> Null] }

\* a provider call failed: it threw, returned nothing, or reported non-success
Failed(outcome) ==
    \/ outcome.kind = "throw"
    \/ IsNull(outcome.value)
    \/ ~outcome.value.success

\* the error text the provider supplied with the outcome, if any
ErrorTextOf(outcome) ==
    IF outcome.kind = "result" /\ ~IsNull(outcome.value)
    THEN outcome.value.errorMessage ELSE Undefined

NoMessage == [tag |-> "none", v |-> ""]

\* localize(key, "Schema Compare failed '{0}'", arg)
CompareErrorMessage(arg) == "Schema Compare failed '" \o arg \o "'"

\* localize(key, "Generate Script failed '{0}'", arg)
GenerateScriptErrorMessage(arg) == "Generate Script failed '" \o arg \o "'"

\* the columns execute() gives the differences table, in order
TableColumns == <<"Type", "Source Name", "Action", "Target Name">>

\* the element of a row in the position of a column
Cell(row, column) ==
    At(row, (CHOOSE k \in DOMAIN TableColumns : TableColumns[k] = column) - 1)

\* container.removeItem(item): drops the first occurrence, if any
RECURSIVE RemoveItem(_, _)
RemoveItem(items, item) ==
    IF items = <<>> THEN <<>>
    ELSE IF Head(items) = item THEN Tail(items)
    ELSE <<Head(items)>> \o RemoveItem(Tail(items), item)

Contains(items, item) == \E k \in DOMAIN items : items[k] = item

NoRows == [tag |-> "null", rows |-> <<>>]

----------------------------------------------------------------------------
(* Initial states *)

\* the panel as the constructor and the registered content callback leave it;
\* the flex container receives its items when the editor is opened
InitPanel(pair) ==
    /\ pc = "constructed"
    /\ sourceEndpointInfo = pair[1]
    /\ targetEndpointInfo = pair[2]
    /\ sourceName = "sourceName"
    /\ targetName = "targetName"
    /\ sourceDropdown = <<"sourceName">>
    /\ targetDropdown = <<"targetName">>
    /\ comparisonResult = Undefined
    /\ compareCalls = {}
    /\ nextOperationId = 0
    /\ compareEnabled = FALSE
    /\ switchEnabled = FALSE
    /\ generateScriptEnabled = FALSE
    /\ flexModel = <<>>
    /\ splitView = <<>>
    /\ tableData = <<>>
    /\ selectedRows = [tag |-> "undefined", rows |-> <<>>]
    /\ contentLeft = "\n"
    /\ contentRight = "\n"
    /\ rowSelectedHandlers = 0
    /\ contentProviders = 0
    /\ lastCall = [kind |-> "none", failed |-> FALSE, errorText |-> Undefined]
    /\ lastMessage = NoMessage
    /\ saveDialogs = {}
    /\ generateCalls = {}
    /\ generateClicks = 0
    /\ cancelledFlows = {}
    /\ issuedCalls = <<>>

FnIdle ==
    /\ fnDiffs = <<>>
    /\ fnData = <<>>
    /\ fnNode = Null
    /\ fnSide = TRUE
    /\ fnScript = ""
    /\ fnPhase = "idle"

Init == (\E pair \in EndpointPairs : InitPanel(pair)) /\ FnIdle

InitFlatten ==
    /\ InitPanel(<<EndpointDb1, EndpointDb2>>)
    /\ fnDiffs \in DiffListsUpTo
    /\ fnData = <<>>
    /\ fnNode = Null
    /\ fnSide = TRUE
    /\ fnScript = ""
    /\ fnPhase = "input"

InitAggregate ==
    /\ InitPanel(<<EndpointDb1, EndpointDb2>>)
    /\ fnDiffs = <<>>
    /\ fnData = <<>>
    /\ fnNode \in Trees \cup {Null}
    /\ fnSide \in BOOLEAN
    /\ fnScript = ""
    /\ fnPhase = "input"

----------------------------------------------------------------------------
(* Applying the pure routines *)

ApplyGetAllDifferences ==
    /\ fnPhase = "input"
    /\ fnData' = getAllDifferences(fnDiffs)
    /\ fnPhase' = "flattened"
    /\ UNCHANGED <<panelVars, fnDiffs, fnNode, fnSide, fnScript>>

ApplyGetAggregatedScript ==
    /\ fnPhase = "input"
    /\ fnScript' = getAggregatedScript(fnNode, fnSide)
    /\ fnPhase' = "aggregated"
    /\ UNCHANGED <<panelVars, fnDiffs, fnData, fnNode, fnSide>>

NextFlatten == ApplyGetAllDifferences

NextAggregate == ApplyGetAggregatedScript

SpecFlatten == InitFlatten /\ [][NextFlatten]_vars

SpecAggregate == InitAggregate /\ [][NextAggregate]_vars

----------------------------------------------------------------------------
(* The panel's operations *)

\* execute(), up to the point where it waits for the provider: getService
\* resolves at once and schemaCompare is called with the current endpoints
IssueCompare(source, target) ==
    /\ compareCalls' = compareCalls \cup
           { [operationId |-> nextOperationId + 1, source |-> source, target |-> target] }
    /\ nextOperationId' = nextOperationId + 1
    /\ issuedCalls' = Append(issuedCalls,
           [operationId |-> nextOperationId + 1, source |-> source, target |-> target])

\* start(): opens the editor, which builds the content, and runs execute()
Start ==
    /\ pc = "constructed"
    /\ pc' = "started"
    /\ flexModel' = <<"toolBar", "sourceTargetFlexLayout", "loader">>
    /\ IssueCompare(sourceEndpointInfo, targetEndpointInfo)
    /\ UNCHANGED <<sourceEndpointInfo, targetEndpointInfo, sourceName, targetName,
                   sourceDropdown, targetDropdown, comparisonResult,
                   compareEnabled, switchEnabled, generateScriptEnabled,
                   splitView, tableData, selectedRows, contentLeft, contentRight,
                   rowSelectedHandlers, contentProviders, lastCall, lastMessage,
                   saveDialogs, generateCalls, generateClicks, cancelledFlows, fnVars>>

\* whether reExecute() disables the compare button
ReExecuteCompareEnabledKept == compareEnabled

ReExecuteCompareEnabled == FALSE

\* the diff pane content reExecute() sets
ReExecuteContentKept(content) == content

ReExecuteContent(content) == "\n"

\* whether reExecute() disables the generate-script button
ReExecuteGenerateScriptEnabledKept == generateScriptEnabled

ReExecuteGenerateScriptEnabled == FALSE

FlexModelAfterReExecuteKeepsLabel ==
    Append(RemoveItem(flexModel, "splitView"), "loader")

\* the flex container after reExecute() swapped the result surface for the loader
FlexModelAfterReExecute ==
    Append(RemoveItem(RemoveItem(flexModel, "splitView"), "noDifferencesLabel"), "loader")

\* reExecute(), with the endpoints as they are when it is called
ReExecute(source, target) ==
    /\ flexModel' = FlexModelAfterReExecute
    /\ contentLeft' = ReExecuteContent(contentLeft)
    /\ contentRight' = ReExecuteContent(contentRight)
    /\ selectedRows' = NoRows
    /\ compareEnabled' = ReExecuteCompareEnabled
    /\ switchEnabled' = FALSE
    /\ generateScriptEnabled' = ReExecuteGenerateScriptEnabled
    /\ IssueCompare(source, target)

\* compareButton.onDidClick
ClickCompare ==
    /\ pc = "started"
    /\ compareEnabled
    /\ nextOperationId < MaxRuns
    /\ ReExecute(sourceEndpointInfo, targetEndpointInfo)
    /\ UNCHANGED <<pc, sourceEndpointInfo, targetEndpointInfo, sourceName, targetName,
                   sourceDropdown, targetDropdown, comparisonResult,
                   splitView, tableData, rowSelectedHandlers, contentProviders,
                   lastCall, lastMessage, saveDialogs, generateCalls,
                   generateClicks, cancelledFlows, fnVars>>

\* switchButton.onDidClick
ClickSwitch ==
    /\ pc = "started"
    /\ switchEnabled
    /\ nextOperationId < MaxRuns
    /\ sourceDropdown' = targetDropdown
    /\ targetDropdown' = sourceDropdown
    /\ sourceEndpointInfo' = targetEndpointInfo
    /\ targetEndpointInfo' = sourceEndpointInfo
    /\ sourceName' = targetName
    /\ targetName' = sourceName
    /\ ReExecute(targetEndpointInfo, sourceEndpointInfo)
    /\ UNCHANGED <<pc, comparisonResult, splitView, tableData, rowSelectedHandlers,
                   contentProviders, lastCall, lastMessage, saveDialogs,
                   generateCalls, generateClicks, cancelledFlows, fnVars>>

RenderedSurfaceAlwaysSplitView(result) == "splitView"

\* the surface execute() adds to the flex container for a result
RenderedSurface(result) ==
    IF Len(result.differences.items) > 0 THEN "splitView" ELSE "noDifferencesLabel"

FlexModelAfterRenderKeepsLoader(result) ==
    Append(flexModel, RenderedSurface(result))

\* the flex container after execute() removed the loader and added the surface
FlexModelAfterRender(result) ==
    Append(RemoveItem(flexModel, "loader"), RenderedSurface(result))

\* execute() from the table update to its end, for a result with a
\* difference array
Render(result) ==
    /\ tableData' = getAllDifferences(result.differences.items)
    /\ splitView' = splitView \o <<"differencesTable", "diffEditor">>
    /\ switchEnabled' = TRUE
    /\ compareEnabled' = TRUE
    /\ generateScriptEnabled' =
           IF targetEndpointInfo.endpointType = "database"
           THEN TRUE ELSE generateScriptEnabled
    /\ flexModel' = FlexModelAfterRender(result)
    /\ rowSelectedHandlers' = rowSelectedHandlers + 1
    /\ contentProviders' = contentProviders + 1

\* execute() stops: the provider's fault or a TypeError leaves the promise rejected
Abandon ==
    UNCHANGED <<tableData, splitView, switchEnabled, compareEnabled,
                generateScriptEnabled, flexModel, rowSelectedHandlers,
                contentProviders>>

\* whether execute() gets past getAllDifferences(result.differences)
Renders(result) == ~IsNull(result.differences)

\* the rest of execute(), once the schemaCompare call comes back
CompareComplete(call, outcome) ==
    /\ call \in compareCalls
    /\ outcome \in CompareOutcomes(call.operationId)
    /\ compareCalls' = compareCalls \ {call}
    /\ lastCall' = [kind |-> "compare", failed |-> Failed(outcome),
                    errorText |-> ErrorTextOf(outcome)]
    /\ IF outcome.kind = "throw"
       THEN \* the await throws; nothing is assigned
            /\ comparisonResult' = comparisonResult
            /\ lastMessage' = NoMessage
            /\ Abandon
       ELSE /\ comparisonResult' = outcome.value
            /\ IF IsNull(outcome.value)
               THEN \* reading errorMessage of null throws
                    /\ lastMessage' = NoMessage
                    /\ Abandon
               ELSE /\ lastMessage' =
                           IF ~outcome.value.success
                           THEN Str(CompareErrorMessage(
                                    IF Truthy(outcome.value.errorMessage)
                                    THEN outcome.value.errorMessage.v ELSE "Unknown"))
                           ELSE NoMessage
                    /\ IF Renders(outcome.value)
                       THEN Render(outcome.value)
                       ELSE Abandon   \* differences.forEach on null throws
    /\ UNCHANGED <<pc, sourceEndpointInfo, targetEndpointInfo, sourceName, targetName,
                   sourceDropdown, targetDropdown, nextOperationId, selectedRows,
                   contentLeft, contentRight, saveDialogs, generateCalls,
                   generateClicks, 
                   cancelledFlows, issuedCalls, fnVars>>


\* the text the onRowSelected handler computes for one side of a difference
PaneText(difference, getSourceScript) ==
    IF IsNull(IF getSourceScript THEN difference.sourceScript ELSE difference.targetScript)
    THEN "\n"
    ELSE getAggregatedScript(difference, getSourceScript)

\* the difference the onRowSelected handler looks up for the selected rows
SelectedDifference(result, rows) ==
    IF result.tag = "result" /\ result.differences.tag = "array"
    THEN At(result.differences.items, rows[1])
    ELSE Undefined

\* the user selects row i of the differences table; every registered
\* onRowSelected handler runs the same computation on the same fields
RowSelected(i) ==
    /\ pc = "started"
    /\ Contains(flexModel, "splitView")
    /\ rowSelectedHandlers > 0
    /\ i \in 0..(Len(tableData) - 1)
    /\ selectedRows' = [tag |-> "array", rows |-> <<i>>]
    /\ LET difference == SelectedDifference(comparisonResult, <<i>>)
       IN IF difference.tag # "undefined"
          THEN /\ contentLeft' = PaneText(difference, TRUE)
               /\ contentRight' = PaneText(difference, FALSE)
          ELSE UNCHANGED <<contentLeft, contentRight>>
    /\ UNCHANGED <<pc, sourceEndpointInfo, targetEndpointInfo, sourceName, targetName,
                   sourceDropdown, targetDropdown, comparisonResult, compareCalls,
                   nextOperationId, compareEnabled, switchEnabled,
                   generateScriptEnabled, flexModel, splitView, tableData,
                   rowSelectedHandlers, contentProviders, lastCall, lastMessage,
                   saveDialogs, generateCalls, generateClicks, 
                   cancelledFlows, issuedCalls, fnVars>>

\* generateScriptButton.onDidClick, up to the save-file dialog
ClickGenerateScript ==
    /\ pc = "started"
    /\ generateScriptEnabled
    /\ generateClicks < MaxGenerateClicks
    /\ generateClicks' = generateClicks + 1
    /\ saveDialogs' = saveDialogs \cup {generateClicks + 1}
    /\ UNCHANGED <<pc, sourceEndpointInfo, targetEndpointInfo, sourceName, targetName,
                   sourceDropdown, targetDropdown, comparisonResult, compareCalls,
                   nextOperationId, compareEnabled, switchEnabled,
                   generateScriptEnabled, flexModel, splitView, tableData,
                   selectedRows, contentLeft, contentRight, rowSelectedHandlers,
                   contentProviders, lastCall, lastMessage, generateCalls, 
                   cancelledFlows, issuedCalls, fnVars>>

GenerateCallsAfterDialogNoCheck(flow, fileUri) ==
    IF comparisonResult.tag = "result"
    THEN generateCalls \cup
             { [flow |-> flow,
                operationId |-> comparisonResult.operationId,
                targetDatabaseName |-> targetEndpointInfo.databaseName] }
    ELSE generateCalls

\* the generate-script handler after the dialog returned fileUri: it returns
\* when there is no file, and otherwise calls schemaCompareGenerateScript with
\* the operation id and the target database name as they are now
GenerateCallsAfterDialog(flow, fileUri) ==
    IF ~Truthy(fileUri) THEN generateCalls
    ELSE IF comparisonResult.tag = "result"
         THEN generateCalls \cup
                  { [flow |-> flow,
                     operationId |-> comparisonResult.operationId,
                     targetDatabaseName |-> targetEndpointInfo.databaseName] }
         ELSE generateCalls   \* reading operationId of null throws

\* the user cancels the save-file dialog: fileUri is undefined and the handler returns
SaveDialogCancelled(flow) ==
    /\ flow \in saveDialogs
    /\ saveDialogs' = saveDialogs \ {flow}
    /\ cancelledFlows' = cancelledFlows \cup {flow}
    /\ generateCalls' = GenerateCallsAfterDialog(flow, Undefined)
    /\ UNCHANGED <<pc, sourceEndpointInfo, targetEndpointInfo, sourceName, targetName,
                   sourceDropdown, targetDropdown, comparisonResult, compareCalls,
                   nextOperationId, compareEnabled, switchEnabled,
                   generateScriptEnabled, flexModel, splitView, tableData,
                   selectedRows, contentLeft, contentRight, rowSelectedHandlers,
                   contentProviders, lastCall, lastMessage,
                   generateClicks, issuedCalls, fnVars>>

\* the user picks a file: schemaCompareGenerateScript is called with the
\* operation id and the target database name as they are now
SaveDialogAccepted(flow) ==
    /\ flow \in saveDialogs
    /\ saveDialogs' = saveDialogs \ {flow}
    /\ generateCalls' = GenerateCallsAfterDialog(flow, Str("file.sql"))
    /\ UNCHANGED <<pc, sourceEndpointInfo, targetEndpointInfo, sourceName, targetName,
                   sourceDropdown, targetDropdown, comparisonResult, compareCalls,
                   nextOperationId, compareEnabled, switchEnabled,
                   generateScriptEnabled, flexModel, splitView, tableData,
                   selectedRows, contentLeft, contentRight, rowSelectedHandlers,
                   contentProviders, lastCall, lastMessage, generateClicks, 
                   cancelledFlows, issuedCalls, fnVars>>

\* the rest of the generate-script handler, once the provider call comes back
GenerateComplete(call, outcome) ==
    /\ call \in generateCalls
    /\ outcome \in GenerateOutcomes
    /\ generateCalls' = generateCalls \ {call}
    /\ lastCall' = [kind |-> "generateScript", failed |-> Failed(outcome),
                    errorText |-> ErrorTextOf(outcome)]
    /\ lastMessage' =
           IF outcome.kind = "throw" THEN NoMessage
           ELSE IF IsNull(outcome.value) THEN NoMessage  \* reading errorMessage of null throws
           ELSE IF ~outcome.value.success
                THEN Str(GenerateScriptErrorMessage(
                         IF Truthy(outcome.value.errorMessage)
                         THEN outcome.value.errorMessage.v ELSE "Unknown"))
                ELSE NoMessage
    /\ UNCHANGED <<pc, sourceEndpointInfo, targetEndpointInfo, sourceName, targetName,
                   sourceDropdown, targetDropdown, comparisonResult, compareCalls,
                   nextOperationId, compareEnabled, switchEnabled,
                   generateScriptEnabled, flexModel, splitView, tableData,
                   selectedRows, contentLeft, contentRight, rowSelectedHandlers,
                   contentProviders, saveDialogs, generateClicks, 
                   cancelledFlows, issuedCalls, fnVars>>

Next ==
    \/ Start
    \/ ClickCompare
    \/ ClickSwitch
    \/ \E call \in compareCalls :
         \E outcome \in CompareOutcomes(call.operationId) : CompareComplete(call, outcome)
    \/ \E i \in 0..(Len(tableData) - 1) : RowSelected(i)
    \/ ClickGenerateScript
    \/ \E flow \in saveDialogs : SaveDialogCancelled(flow)
    \/ \E flow \in saveDialogs : SaveDialogAccepted(flow)
    \/ \E call \in generateCalls :
         \E outcome \in GenerateOutcomes : GenerateComplete(call, outcome)

Spec == Init /\ [][Next]_vars

----------------------------------------------------------------------------
(* Vocabulary of the properties *)

\* the row filter as the specification words it
Qualifies(node) ==
    node.differenceType = "Object"
    /\ (node.sourceValue # Null \/ node.targetValue # Null)

\* the top-level nodes that produce rows, in input order: element i+1 is the
\* node that produced row i
RowNodes(differences) == SelectSeq(differences, Qualifies)

\* the display label of an update action as the specification gives it
LabelOf(action) ==
    CASE action = "Delete" -> "Delete"
      [] action = "Change" -> "Change"
      [] action = "Add" -> "Add"

\* pick(node, side): the node's script field for the side
Pick(node, getSourceScript) ==
    IF getSourceScript THEN node.sourceScript ELSE node.targetScript

RECURSIVE ConcatAll(_)
ConcatAll(texts) ==
    IF texts = <<>> THEN "" ELSE Head(texts) \o ConcatAll(Tail(texts))

NotNullText(text) == text # "null"

\* the aggregates of a node's children, in child order
ChildAggregates(node, getSourceScript) ==
    [k \in DOMAIN node.children |-> getAggregatedScript(node.children[k], getSourceScript)]

Outstanding == compareCalls # {}

Cleared(rows) == rows.tag \in {"null", "undefined"}

----------------------------------------------------------------------------
(* C1 *)

\* C1: whenever a row is selected, both diff panes hold the text computed
\* from the node that produced the selected row, i.e. the (i+1)-th node of
\* the difference list that passes the row filter.
C1_PanesShowRowNode ==
    (selectedRows.tag = "array" /\ comparisonResult.tag = "result"
        /\ comparisonResult.differences.tag = "array")
    => LET nodes == RowNodes(comparisonResult.differences.items)
           i == selectedRows.rows[1]
       IN  /\ i + 1 \in DOMAIN nodes
           /\ contentLeft = PaneText(nodes[i + 1], TRUE)
           /\ contentRight = PaneText(nodes[i + 1], FALSE)

----------------------------------------------------------------------------
(* C2 *)

\* C2: getAllDifferences returns one row per top-level node that is
\* Object-typed with a non-null source or target value, in input order: the
\* number of rows is the number of such nodes, and row j carries the name and
\* values of the j-th such node; other nodes and nested children add no row.
C2_OneRowPerQualifyingNode ==
    fnPhase = "flattened" =>
        LET nodes == RowNodes(fnDiffs)
        IN  /\ Len(fnData) = Cardinality({k \in DOMAIN fnDiffs : Qualifies(fnDiffs[k])})
            /\ Len(fnData) = Len(nodes)
            /\ \A j \in DOMAIN fnData :
                   /\ fnData[j][1] = nodes[j].name
                   /\ fnData[j][2] = nodes[j].sourceValue
                   /\ fnData[j][4] = nodes[j].targetValue

\* C2 witness: a list with a filtered node between two row-producing nodes,
\* and a parent whose nested child would pass the filter, has been flattened
C2_Witness ==
    /\ fnPhase = "flattened"
    /\ Len(fnDiffs) = 3
    /\ Len(fnData) = 2
    /\ Qualifies(fnDiffs[1]) /\ ~Qualifies(fnDiffs[2]) /\ Qualifies(fnDiffs[3])
    /\ fnDiffs[3].children # <<>>
    /\ fnDiffs[1].sourceValue # fnDiffs[3].sourceValue

----------------------------------------------------------------------------
(* C3 *)

\* C3: for a node, the aggregated script is the text of the node's own
\* script for the side followed by the aggregated scripts of its children in
\* child order, leaving out every child aggregate that is exactly "null".
C3_AggregateIsPreOrderConcat ==
    (fnPhase = "aggregated" /\ ~IsNull(fnNode)) =>
        fnScript = JsString(Pick(fnNode, fnSide))
                   \o ConcatAll(SelectSeq(ChildAggregates(fnNode, fnSide), NotNullText))

\* C3 witness: parent script "A", a child aggregating to "null" and a child
\* aggregating to "B" give "AB"
C3_Witness ==
    /\ fnPhase = "aggregated"
    /\ ~IsNull(fnNode)
    /\ fnSide
    /\ fnNode.sourceScript = Str("A")
    /\ Len(fnNode.children) = 2
    /\ ChildAggregates(fnNode, TRUE) = <<"null", "B">>
    /\ fnScript = "AB"

----------------------------------------------------------------------------
(* C4 *)

\* C4 as stated: for a node without children the aggregated script is the
\* node's script field itself, whatever its value (a string or null).
C4_LeafAggregateIsPick ==
    (fnPhase = "aggregated" /\ ~IsNull(fnNode) /\ fnNode.children = <<>>) =>
        Str(fnScript) = Pick(fnNode, fnSide)

\* C4 amended: for a node without children the aggregated script is the text
\* of the node's script field: the field itself when it is a string, and the
\* four characters "null" when the field is null.
C4_LeafAggregateIsPickText ==
    (fnPhase = "aggregated" /\ ~IsNull(fnNode) /\ fnNode.children = <<>>) =>
        fnScript = (IF Pick(fnNode, fnSide).tag = "string"
                    THEN Pick(fnNode, fnSide).v ELSE "null")

\* C4 witness: a leaf whose script field for the side is null was aggregated
C4_Witness ==
    /\ fnPhase = "aggregated"
    /\ ~IsNull(fnNode)
    /\ fnNode.children = <<>>
    /\ IsNull(Pick(fnNode, fnSide))

----------------------------------------------------------------------------
(* C5 *)

\* C5 as stated: the aggregated script of a null node is a single newline.
C5_NullAggregateIsNewline ==
    (fnPhase = "aggregated" /\ IsNull(fnNode)) => fnScript = "\n"

\* C5 amended: the aggregated script of a null node is the empty string, for
\* both sides.
C5_NullAggregateIsEmpty ==
    (fnPhase = "aggregated" /\ IsNull(fnNode)) => fnScript = ""

\* C5 witness: getAggregatedScript was applied to null for the target side
C5_Witness ==
    /\ fnPhase = "aggregated"
    /\ IsNull(fnNode)
    /\ ~fnSide

----------------------------------------------------------------------------
(* C6 *)

\* C6: every row is <<name, sourceValue, label, targetValue>> of the node
\* that produced it, the label being "Delete", "Change" or "Add" for the
\* update actions Delete, Change and Add; every update action has a label;
\* the Table1 node alone yields <<"Table1", "CREATE TABLE T1", "Delete", null>>.
C6_RowContents ==
    fnPhase = "flattened" =>
        LET nodes == RowNodes(fnDiffs)
        IN  /\ \A j \in DOMAIN fnData :
                   j \in DOMAIN nodes
                   /\ fnData[j] = <<nodes[j].name, nodes[j].sourceValue,
                                    Str(LabelOf(nodes[j].updateAction)),
                                    nodes[j].targetValue>>
            /\ \A action \in SchemaUpdateAction : ActionLabel(action).tag = "string"
            /\ (fnDiffs = <<Table1>>) =>
                   fnData = << <<Str("Table1"), Str("CREATE TABLE T1"), Str("Delete"), Null>> >>

\* C6 witness: the Table1 node alone was flattened into its row
C6_Witness ==
    /\ fnPhase = "flattened"
    /\ fnDiffs = <<Table1>>
    /\ Len(fnData) = 1
    /\ fnData[1][3] = Str("Delete")

----------------------------------------------------------------------------
(* C7 *)

\* C7: while a schemaCompare call is outstanding, the compare, switch and
\* generate-script buttons are disabled, no row is selected and both diff
\* panes hold "\n".
C7_LoadingWhileOutstanding ==
    Outstanding =>
        /\ ~compareEnabled
        /\ ~switchEnabled
        /\ ~generateScriptEnabled
        /\ Cleared(selectedRows)
        /\ contentLeft = "\n"
        /\ contentRight = "\n"

\* C7 witness: a re-run is outstanding after a result with rows was shown,
\* so the table and the panes of the previous run had content to reset
C7_Witness ==
    /\ Outstanding
    /\ nextOperationId >= 2
    /\ tableData # <<>>
    /\ selectedRows = NoRows

----------------------------------------------------------------------------
(* C8 *)

\* C8: at most one schemaCompare call is outstanding at any time.
C8_AtMostOneOutstanding == Cardinality(compareCalls) <= 1

\* C8 witness: a re-run is outstanding while a generate-script flow is also
\* under way (its save-file dialog open or its provider call in flight)
C8_Witness ==
    /\ Cardinality(compareCalls) = 1
    /\ nextOperationId >= 2
    /\ (saveDialogs # {} \/ generateCalls # {})

----------------------------------------------------------------------------
(* C9 *)

\* the message the specification expects for a failed provider call
ExpectedMessage(call) ==
    LET text == IF Truthy(call.errorText) THEN call.errorText.v ELSE "Unknown"
    IN  IF call.kind = "compare"
        THEN Str(CompareErrorMessage(text))
        ELSE Str(GenerateScriptErrorMessage(text))

\* C9: whenever the provider call handled last failed (non-success, nothing
\* returned, or a thrown fault), its handler showed the error message with
\* the provider's error text, or with "Unknown" when there is none.
C9_FailureShowsMessage ==
    lastCall.failed => lastMessage = ExpectedMessage(lastCall)

----------------------------------------------------------------------------
(* C10 *)

\* C10: once a failed comparison has been handled and until the next user
\* action, the panel still shows the loader, shows neither the table/diff
\* split view nor the no-differences label, keeps the compare and switch
\* buttons disabled, and no schemaCompare call is outstanding.
C10_FailedCompareStaysLoading ==
    (lastCall.kind = "compare" /\ lastCall.failed /\ ~Outstanding) =>
        /\ Contains(flexModel, "loader")
        /\ ~Contains(flexModel, "splitView")
        /\ ~Contains(flexModel, "noDifferencesLabel")
        /\ ~compareEnabled
        /\ ~switchEnabled

----------------------------------------------------------------------------
(* Vocabulary of the panel-level properties *)

\* a comparison result has been rendered and no re-run has replaced it
Populated == pc = "started" /\ ~Contains(flexModel, "loader")

\* how many times an item occurs in a container
Occurrences(items, item) == Cardinality({k \in DOMAIN items : items[k] = item})

\* the pre-order concatenation of the script fields that are present
RECURSIVE PresentPreOrder(_, _)
PresentPreOrder(node, getSourceScript) ==
    (IF IsNull(Pick(node, getSourceScript)) THEN "" ELSE Pick(node, getSourceScript).v)
    \o ConcatAll([k \in DOMAIN node.children |->
                     PresentPreOrder(node.children[k], getSourceScript)])

----------------------------------------------------------------------------
(* C11 *)

\* C11: once a failed provider call has been handled and no comparison is
\* outstanding, the compare or the switch-direction button is enabled, so a
\* click can issue a new comparison.  (Only the completion of a comparison
\* enables the buttons, so with none outstanding a disabled pair stays
\* disabled for ever.)
C11_RetryPossibleAfterFailure ==
    (lastCall.failed /\ ~Outstanding) => (compareEnabled \/ switchEnabled)

----------------------------------------------------------------------------
(* C12 *)

\* C12: the step in which a save-file dialog is cancelled issues no
\* schemaCompareGenerateScript call, shows no message and leaves the
\* comparison result, the table rows, the layout and the buttons unchanged;
\* and no call in flight belongs to a cancelled flow.
C12_CancelAbortsSilently ==
    /\ [](\A call \in generateCalls : call.flow \notin cancelledFlows)
    /\ [][cancelledFlows' # cancelledFlows =>
            UNCHANGED <<generateCalls, lastCall, lastMessage, comparisonResult,
                        tableData, flexModel, splitView, compareEnabled,
                        switchEnabled, generateScriptEnabled, compareCalls>>]_vars

\* C12 witness: a dialog was cancelled while a result with rows is shown
C12_Witness ==
    /\ cancelledFlows # {}
    /\ Populated
    /\ tableData # <<>>
    /\ generateScriptEnabled

----------------------------------------------------------------------------
(* C13 *)

\* C13: every step that issues a comparison (start, compare click, switch
\* click) leaves the panel with the loader shown and the call outstanding;
\* and once a comparison has completed with success and until the next click,
\* the loader is removed, a result surface is shown and the compare and
\* switch-direction buttons are enabled.
C13_LoadingThenPopulated ==
    /\ [][nextOperationId' # nextOperationId =>
            (Contains(flexModel', "loader") /\ compareCalls' # {})]_vars
    /\ []((lastCall.kind = "compare" /\ ~lastCall.failed /\ ~Outstanding) =>
            /\ ~Contains(flexModel, "loader")
            /\ (Contains(flexModel, "splitView") \/ Contains(flexModel, "noDifferencesLabel"))
            /\ compareEnabled
            /\ switchEnabled)

\* C13 witness: a re-run completed with success and its result is shown
C13_Witness ==
    /\ lastCall.kind = "compare"
    /\ ~lastCall.failed
    /\ ~Outstanding
    /\ nextOperationId >= 2
    /\ compareEnabled

----------------------------------------------------------------------------
(* C14 *)

\* C14: the generate-script button is enabled only while the current target
\* endpoint is a database.
C14_GenerateOnlyForDatabaseTarget ==
    generateScriptEnabled => targetEndpointInfo.endpointType = "database"

\* C14 witness: after a switch of direction that made a database the target
\* (the source being a dacpac) the button is enabled
C14_Witness ==
    /\ generateScriptEnabled
    /\ sourceName = "targetName"
    /\ sourceEndpointInfo.endpointType = "dacpac"
    /\ targetEndpointInfo.endpointType = "database"

----------------------------------------------------------------------------
(* C15 *)

\* C15: every schemaCompareGenerateScript call in flight carries an operation
\* id and a target database name that belong together: the comparison with
\* that operation id was issued with a target of that database name.
C15_GenerateCallIsConsistent ==
    \A call \in generateCalls :
        /\ call.operationId \in DOMAIN issuedCalls
        /\ issuedCalls[call.operationId].target.databaseName = call.targetDatabaseName

----------------------------------------------------------------------------
(* C16 *)

\* C16 as stated: while a rendered result is shown, the no-differences label
\* is shown exactly when the table has no rows, and the split view otherwise.
C16_LabelIffNoRows ==
    Populated =>
        /\ Contains(flexModel, "noDifferencesLabel") <=> (tableData = <<>>)
        /\ Contains(flexModel, "splitView") <=> (tableData # <<>>)

\* C16 amended: an empty difference list gives no rows; while a rendered
\* result is shown, the no-differences label is shown exactly when the
\* result's difference list is empty, and the split view otherwise (also
\* when every top-level node is filtered out and the table has no rows).
C16_LabelIffNoDifferences ==
    /\ getAllDifferences(<<>>) = <<>>
    /\ Populated =>
        /\ Contains(flexModel, "noDifferencesLabel")
               <=> (comparisonResult.differences.items = <<>>)
        /\ Contains(flexModel, "splitView")
               <=> (comparisonResult.differences.items # <<>>)
        /\ (comparisonResult.differences.items = <<>>) => (tableData = <<>>)

\* C16 witness: a result whose nodes are all filtered out is shown: the
\* table has no rows and the split view, not the label, is in the layout
C16_Witness ==
    /\ Populated
    /\ comparisonResult.differences.items # <<>>
    /\ tableData = <<>>
    /\ Contains(flexModel, "splitView")

----------------------------------------------------------------------------
(* C17 *)

\* C17: once the content is built, the loader, the split view and the
\* no-differences label occur exactly once in the layout, all three taken
\* together.
C17_ExactlyOneSurface ==
    pc = "started" =>
        Occurrences(flexModel, "loader") + Occurrences(flexModel, "splitView")
            + Occurrences(flexModel, "noDifferencesLabel") = 1

\* C17 witness: the third run is shown after an earlier run ended without rows
C17_Witness ==
    /\ pc = "started"
    /\ nextOperationId >= 3
    /\ rowSelectedHandlers >= 3
    /\ Contains(flexModel, "noDifferencesLabel")

----------------------------------------------------------------------------
(* C18 *)

\* C18 as stated: in every row of the table the Type position is empty, and
\* the node's name, action label and target value are in the positions of
\* Source Name, Action and Target Name.
C18_TypeColumnEmpty ==
    (comparisonResult.tag = "result" /\ comparisonResult.differences.tag = "array") =>
        LET nodes == RowNodes(comparisonResult.differences.items)
        IN  \A j \in DOMAIN tableData :
                /\ j \in DOMAIN nodes
                /\ ~Truthy(Cell(tableData[j], "Type"))
                /\ Cell(tableData[j], "Source Name") = nodes[j].name
                /\ Cell(tableData[j], "Action") = Str(LabelOf(nodes[j].updateAction))
                /\ Cell(tableData[j], "Target Name") = nodes[j].targetValue

\* C18 amended: every row of the table has a value in each of the four
\* positions: the node's name in the Type position, its sourceValue under
\* Source Name, the action label under Action and its targetValue under
\* Target Name.
C18_TypeColumnHoldsName ==
    (comparisonResult.tag = "result" /\ comparisonResult.differences.tag = "array") =>
        LET nodes == RowNodes(comparisonResult.differences.items)
        IN  \A j \in DOMAIN tableData :
                /\ j \in DOMAIN nodes
                /\ Len(tableData[j]) = Len(TableColumns)
                /\ Cell(tableData[j], "Type") = nodes[j].name
                /\ Cell(tableData[j], "Source Name") = nodes[j].sourceValue
                /\ Cell(tableData[j], "Action") = Str(LabelOf(nodes[j].updateAction))
                /\ Cell(tableData[j], "Target Name") = nodes[j].targetValue

\* C18 witness: the table shows the Table1 row, with the name in the Type
\* position and the absent target value under Target Name
C18_Witness ==
    /\ Populated
    /\ Len(tableData) = 1
    /\ Cell(tableData[1], "Type") = Str("Table1")
    /\ Cell(tableData[1], "Target Name") = Null

----------------------------------------------------------------------------
(* C19 *)

\* C19: for a node whose own script for the side is present, the aggregated
\* script is the pre-order concatenation of the script fields that are
\* present in the node and its descendants.
C19_AggregateOfPresentScripts ==
    (fnPhase = "aggregated" /\ ~IsNull(fnNode) /\ ~IsNull(Pick(fnNode, fnSide))) =>
        fnScript = PresentPreOrder(fnNode, fnSide)

----------------------------------------------------------------------------
(* C20 *)

\* C20: once a result has been rendered, exactly one onRowSelected handler
\* and one pair of content providers are registered, after any number of runs.
C20_OneHandlerRegistered ==
    rowSelectedHandlers > 0 => (rowSelectedHandlers = 1 /\ contentProviders = 1)

====
